---------------------------- MODULE Spec2Model ----------------------------
(***************************************************************************)
(* Model of the ionogram accumulation program:                             *)
(*   src/process.py    the batch engine (window jobs run by a worker pool,  *)
(*                     shared progress counter, skip of existing outputs)   *)
(*   src/ion_class.py  the Ionogram record: merge operators and codec       *)
(*                                                                         *)
(* The module holds several specifications over one set of variables:      *)
(*   Spec       the engine: main() run twice over the same input files      *)
(*   SpecAdd    c = a + b; d = b + a; a += b on two Ionograms               *)
(*   SpecDiv    q = a / k on an Ionogram                                    *)
(*   SpecFold   the fold and the division of process() on Python objects    *)
(*   SpecCodec  a source file is read, written again and read back          *)
(*   SpecDecode a source file, whole or cut short, is read                  *)
(*   SpecEnum   main() builds the list of window jobs from the environment  *)
(*   SpecCheck  main() builds the jobs and runs check_resolution()          *)
(*   SpecView   a += b and a.get_ionogram() on a loaded Ionogram a          *)
(* In each specification the variables of the other parts stay idle.       *)
(***************************************************************************)
EXTENDS Integers, Sequences, FiniteSets, TLC

(***************************************************************************)
(* Bounds of the engine model.                                             *)
(***************************************************************************)
NumJobs == 2        \* window jobs in args (len(args))

Jobs == 1..NumJobs
Slots == 1..2       \* expected source files of one window (the m, s loop)
LastSlot == Cardinality(Slots)
Workers == {1, 2}   \* processes of the Pool

FileKinds == {"missing", "good", "bad"}
NoFile == [exists |-> FALSE, data |-> <<>>]

VARIABLES
  run,             \* which run of main() is in progress
  mainpc,          \* position of main(): "init", "pool", "finished", "raised"
  progress_value,  \* Value('i', 0): the completed counter
  progress_total,  \* Value('i', 1): the total counter
  lock,            \* holder of progress_value.get_lock(), 0 when free
  wjob,            \* the job each pool worker is running, 0 when idle
  wpc,             \* position of each worker inside process()
  wreg,            \* the value a worker loaded for progress_value.value += 1
  wslot,           \* the loop position of a worker in the m, s loop
  ions,            \* the list ions of each worker: slots loaded so far
  aion,            \* the record aion of each worker: the slots it averages
  dirExists,       \* os.path.exists(dpath): the output directory of the day
  jstate,          \* state of each window job in this run
  files,           \* the source files: files[j][s] is a FileKind
  out,             \* the output files: out[j]
  outAtStart,      \* history: out as it was when the run started
  reads,           \* history: source files read by job j in this run
  writes,          \* history: times the output file of j was written, all runs
  incs,            \* history: increments of progress_value done by job j in this run
  madeDir          \* history: job j called os.makedirs(dpath) in this run

engineVars == <<run, mainpc, progress_value, progress_total, lock, wjob, wpc,
                wreg, wslot, ions, aion, dirExists, jstate, files, out,
                outAtStart, reads, writes, incs, madeDir>>

VARIABLES
  opA, opB,        \* two Ionogram objects: their noise and echoes lists
  origA, origB,    \* history: the operands as they were constructed
  sumAB, sumBA,    \* the objects returned by opA + opB and by opB + opA
  iaddOk,          \* outcome of opA += opB: "none", "returned", "raised"
  divK,            \* the scalar of opA / divK
  quot,            \* the object returned by opA / divK
  algpc            \* which operators have been applied

algVars == <<opA, opB, origA, origB, sumAB, sumBA, iaddOk, divK, quot, algpc>>

VARIABLES
  srcBody,         \* the body of a source file: its 4-byte groups, in file order
  srcTail,         \* the bytes of the body after its last whole group (0 to 3)
  srcNF,           \* nfrequences as the passport of the file gives it
  ion,             \* the Ionogram that read the source file
  outBody,         \* the body of the file written by ion.writeion()
  ion2,            \* the Ionogram that read the written file
  codpc            \* which codec operations have been applied

codecVars == <<srcBody, srcTail, srcNF, ion, outBody, ion2, codpc>>

VARIABLES
  date_from,       \* DATE_FROM as the list [year, month, day]
  date_to,         \* DATE_TO as the list [year, month, day]
  dm,              \* DELTA_MINUTES
  s_start,         \* the start second found by get_s_start()
  args,            \* the list args of main(): one tuple per window job
  hires,           \* the source files whose largest height index is above 512
  res_warn,        \* the list res_warn that check_resolution() returned
  enpc             \* position of main(): "env", "built", "checked", "raised"

enumVars == <<date_from, date_to, dm, s_start, args, hires, res_warn, enpc>>

VARIABLES
  heap,            \* the list objects of Python, by address: heap[a] is the
                   \* content of the list at a (an entry [f, amp] or [f, h, amp],
                   \* or a noise or echoes list holding the addresses of its entries)
  hions,           \* the list ions of process(): the Ionograms read, each
                   \* [noise |-> address, echoes |-> address]
  origIons,        \* history: the noise and echoes of the Ionograms as read
  hsum,            \* the Ionogram returned by ions[0] + ions[-1]
  sum_ion,         \* sum_ion of process()
  ni,              \* the loop index ni of the fold
  sumBefore,       \* history: the noise and echoes of sum_ion before the division
  haion,           \* aion of process(): the Ionogram returned by the division
  foldpc           \* position in the fold

foldVars == <<heap, hions, origIons, hsum, sum_ion, ni, sumBefore, haion, foldpc>>

\* a loaded Ionogram under a sequence of a += b and a.get_ionogram()
VARIABLES
  vion,            \* the Ionogram a, with nfrequences, nheights and the
                   \* attribute ionogram_matrix
  vother,          \* the Ionogram b
  vret,            \* the matrix the last call of a.get_ionogram() returned
  vops,            \* the number of operations done on a
  viewpc           \* the last operation on a

viewVars == <<vion, vother, vret, vops, viewpc>>

notEngine == <<algVars, codecVars, enumVars, foldVars, viewVars>>
notAlg == <<engineVars, codecVars, enumVars, foldVars, viewVars>>
notCodec == <<engineVars, algVars, enumVars, foldVars, viewVars>>
notEnum == <<engineVars, algVars, codecVars, foldVars, viewVars>>
notFold == <<engineVars, algVars, codecVars, enumVars, viewVars>>
notView == <<engineVars, algVars, codecVars, enumVars, foldVars>>

vars == <<engineVars, algVars, codecVars, enumVars, foldVars, viewVars>>

----------------------------------------------------------------------------
(***************************************************************************)
(* process.py: main() and process()                                        *)
(***************************************************************************)

Terminal == {"skipped", "empty", "done", "failed"}

\* os.path.exists(ofname), process.py line 32
OutputExistsNever(j) == FALSE
OutputExists(j) == out[j].exists

\* progress_value.get_lock() can be taken, process.py lines 33 and 53
LockFreeNoMutex == TRUE
LockFree == lock = 0

\* lines 41-42: the ranges of the m, s loop are exhausted
LoopOverAtOnce(w) == wslot[w] >= 1
LoopOver(w) == wslot[w] > LastSlot

\* the state main() starts in, but for the source files
EngineStart ==
  /\ run = 1
  /\ mainpc = "init"
  /\ progress_value = 0
  /\ progress_total = 1
  /\ lock = 0
  /\ wjob = [w \in Workers |-> 0]
  /\ wpc = [w \in Workers |-> "idle"]
  /\ wreg = [w \in Workers |-> 0]
  /\ wslot = [w \in Workers |-> 0]
  /\ ions = [w \in Workers |-> <<>>]
  /\ aion = [w \in Workers |-> <<>>]
  /\ dirExists = FALSE
  /\ madeDir = [j \in Jobs |-> FALSE]
  /\ jstate = [j \in Jobs |-> "pending"]
  /\ out = [j \in Jobs |-> NoFile]
  /\ outAtStart = out
  /\ reads = [j \in Jobs |-> 0]
  /\ writes = [j \in Jobs |-> 0]
  /\ incs = [j \in Jobs |-> 0]

\* the engine started over any source files
EngineInit ==
  /\ EngineStart
  /\ files \in [Jobs -> [Slots -> FileKinds]]

\* the engine is not run (the other specifications)
EngineIdle ==
  /\ EngineStart
  /\ files = [j \in Jobs |-> [s \in Slots |-> "missing"]]

\* main(), lines 178-205: the counters are created, args is built,
\* progress_total is set to len(args) and the pool is started.
MainStart ==
  /\ mainpc = "init"
  /\ mainpc' = "pool"
  /\ progress_total' = NumJobs
  /\ UNCHANGED notEngine
  /\ UNCHANGED <<aion, dirExists, madeDir, run, progress_value, lock, wjob, wpc, wreg, wslot, ions,
                 jstate, files, out, outAtStart, reads, writes, incs>>

\* pool.starmap, line 206: an idle worker takes the next job of args and
\* enters process(); lines 30-31 compute ofname.
TakeJob(w, j) ==
  /\ mainpc = "pool"
  /\ wpc[w] = "idle"
  /\ jstate[j] = "pending"
  /\ \A k \in Jobs : k < j => jstate[k] # "pending"
  /\ wjob' = [wjob EXCEPT ![w] = j]
  /\ wpc' = [wpc EXCEPT ![w] = "exists"]
  /\ jstate' = [jstate EXCEPT ![j] = "running"]
  /\ ions' = [ions EXCEPT ![w] = <<>>]
  /\ aion' = [aion EXCEPT ![w] = <<>>]
  /\ wslot' = [wslot EXCEPT ![w] = 1]
  /\ UNCHANGED notEngine
  /\ UNCHANGED <<dirExists, madeDir, run, mainpc, progress_value, progress_total, lock, wreg,
                 files, out, outAtStart, reads, writes, incs>>

\* line 32: if os.path.exists(ofname)
CheckExists(w) ==
  /\ wpc[w] = "exists"
  /\ wpc' = [wpc EXCEPT ![w] =
               IF OutputExists(wjob[w]) THEN "skip_lock" ELSE "read"]
  /\ UNCHANGED notEngine
  /\ UNCHANGED <<aion, dirExists, madeDir, run, mainpc, progress_value, progress_total, lock, wjob,
                 wreg, wslot, ions, jstate, files, out, outAtStart, reads,
                 writes, incs>>

\* lines 33 and 53: with progress_value.get_lock()
Acquire(w) ==
  /\ wpc[w] \in {"skip_lock", "lock"}
  /\ LockFree
  /\ lock' = w
  /\ wpc' = [wpc EXCEPT ![w] = IF wpc[w] = "skip_lock" THEN "skip_load" ELSE "load"]
  /\ UNCHANGED notEngine
  /\ UNCHANGED <<aion, dirExists, madeDir, run, mainpc, progress_value, progress_total, wjob, wreg,
                 wslot, ions, jstate, files, out, outAtStart, reads, writes,
                 incs>>

\* lines 34 and 54: progress_value.value += 1, the read of the value
LoadCounter(w) ==
  /\ wpc[w] \in {"skip_load", "load"}
  /\ wreg' = [wreg EXCEPT ![w] = progress_value]
  /\ wpc' = [wpc EXCEPT ![w] = IF wpc[w] = "skip_load" THEN "skip_store" ELSE "store"]
  /\ UNCHANGED notEngine
  /\ UNCHANGED <<aion, dirExists, madeDir, run, mainpc, progress_value, progress_total, lock, wjob,
                 wslot, ions, jstate, files, out, outAtStart, reads, writes,
                 incs>>

\* lines 34-36: the write of the value, the end of the with block, return
StoreCounterSkip(w) ==
  /\ wpc[w] = "skip_store"
  /\ progress_value' = wreg[w] + 1
  /\ lock' = IF lock = w THEN 0 ELSE lock
  /\ incs' = [incs EXCEPT ![wjob[w]] = @ + 1]
  /\ jstate' = [jstate EXCEPT ![wjob[w]] = "skipped"]
  /\ wpc' = [wpc EXCEPT ![w] = "idle"]
  /\ wjob' = [wjob EXCEPT ![w] = 0]
  /\ UNCHANGED notEngine
  /\ UNCHANGED <<aion, dirExists, madeDir, run, mainpc, progress_total, wreg, wslot, ions, files, out,
                 outAtStart, reads, writes>>

\* lines 41-51, one round of the loop over the expected files of the window:
\* a missing file is passed over, an existing file is read by readion(); a
\* file that cannot be parsed makes readion() raise, and the exception leaves
\* process() since nothing catches it.
ReadSlot(w) ==
  /\ wpc[w] = "read"
  /\ wslot[w] <= LastSlot
  /\ LET j == wjob[w]
         k == files[j][wslot[w]]
     IN  /\ reads' = [reads EXCEPT ![j] = IF k = "missing" THEN @ ELSE @ + 1]
         /\ IF k = "bad"
            THEN /\ jstate' = [jstate EXCEPT ![j] = "failed"]
                 /\ wpc' = [wpc EXCEPT ![w] = "idle"]
                 /\ wjob' = [wjob EXCEPT ![w] = 0]
                 /\ UNCHANGED <<ions, wslot>>
            ELSE /\ ions' = [ions EXCEPT ![w] =
                               IF k = "good" THEN Append(@, wslot[w]) ELSE @]
                 /\ wslot' = [wslot EXCEPT ![w] = @ + 1]
                 /\ UNCHANGED <<jstate, wpc, wjob>>
  /\ UNCHANGED notEngine
  /\ UNCHANGED <<aion, dirExists, madeDir, run, mainpc, progress_value, progress_total, lock, wreg,
                 files, out, outAtStart, writes, incs>>

\* the loop of lines 41-51 is over
ReadDone(w) ==
  /\ wpc[w] = "read"
  /\ LoopOver(w)
  /\ wpc' = [wpc EXCEPT ![w] = "lock"]
  /\ UNCHANGED notEngine
  /\ UNCHANGED <<aion, dirExists, madeDir, run, mainpc, progress_value, progress_total, lock, wjob,
                 wreg, wslot, ions, jstate, files, out, outAtStart, reads,
                 writes, incs>>

\* line 54: the write of the value, and the end of the with block
StoreCounter(w) ==
  /\ wpc[w] = "store"
  /\ progress_value' = wreg[w] + 1
  /\ lock' = IF lock = w THEN 0 ELSE lock
  /\ incs' = [incs EXCEPT ![wjob[w]] = @ + 1]
  /\ wpc' = [wpc EXCEPT ![w] = "empty"]
  /\ UNCHANGED notEngine
  /\ UNCHANGED <<aion, dirExists, madeDir, run, mainpc, progress_total, wjob, wreg, wslot, ions, jstate,
                 files, out, outAtStart, reads, writes>>

\* lines 56-58: if len(ions) <= 0: return
CheckEmpty(w) ==
  /\ wpc[w] = "empty"
  /\ IF Len(ions[w]) <= 0
     THEN /\ jstate' = [jstate EXCEPT ![wjob[w]] = "empty"]
          /\ wpc' = [wpc EXCEPT ![w] = "idle"]
          /\ wjob' = [wjob EXCEPT ![w] = 0]
     ELSE /\ wpc' = [wpc EXCEPT ![w] = "merge"]
          /\ UNCHANGED <<jstate, wjob>>
  /\ UNCHANGED notEngine
  /\ UNCHANGED <<aion, dirExists, madeDir, run, mainpc, progress_value, progress_total, lock, wreg,
                 wslot, ions, files, out, outAtStart, reads, writes, incs>>

\* lines 63-69: the fold with += and the division by len(ions); the record
\* aion is held in memory, no file is touched
Merge(w) ==
  /\ wpc[w] = "merge"
  /\ aion' = [aion EXCEPT ![w] = ions[w]]
  /\ wpc' = [wpc EXCEPT ![w] = "dircheck"]
  /\ UNCHANGED notEngine
  /\ UNCHANGED <<dirExists, madeDir, run, mainpc, progress_value, progress_total,
                 lock, wjob, wreg, wslot, ions, jstate, files, out, outAtStart,
                 reads, writes, incs>>

\* line 70: if not os.path.exists(dpath)
CheckDir(w) ==
  /\ wpc[w] = "dircheck"
  /\ wpc' = [wpc EXCEPT ![w] = IF dirExists THEN "write" ELSE "mkdir"]
  /\ UNCHANGED notEngine
  /\ UNCHANGED <<aion, dirExists, madeDir, run, mainpc, progress_value,
                 progress_total, lock, wjob, wreg, wslot, ions, jstate, files,
                 out, outAtStart, reads, writes, incs>>

\* line 71: os.makedirs(dpath).  It raises FileExistsError when another
\* worker has made the directory since line 70, and the exception leaves
\* process().
MakeDir(w) ==
  /\ wpc[w] = "mkdir"
  /\ LET j == wjob[w]
     IN  /\ madeDir' = [madeDir EXCEPT ![j] = TRUE]
         /\ IF dirExists
            THEN /\ jstate' = [jstate EXCEPT ![j] = "failed"]
                 /\ wpc' = [wpc EXCEPT ![w] = "idle"]
                 /\ wjob' = [wjob EXCEPT ![w] = 0]
                 /\ UNCHANGED dirExists
            ELSE /\ dirExists' = TRUE
                 /\ wpc' = [wpc EXCEPT ![w] = "write"]
                 /\ UNCHANGED <<jstate, wjob>>
  /\ UNCHANGED notEngine
  /\ UNCHANGED <<aion, run, mainpc, progress_value, progress_total, lock, wreg,
                 wslot, ions, files, out, outAtStart, reads, writes, incs>>

\* lines 72-73 and writeion() lines 253-257: the file is written unless it
\* exists already (rewrite is False)
WriteOutput(w) ==
  /\ wpc[w] = "write"
  /\ LET j == wjob[w]
     IN  /\ IF out[j].exists
            THEN UNCHANGED <<out, writes>>
            ELSE /\ out' = [out EXCEPT ![j] = [exists |-> TRUE, data |-> aion[w]]]
                 /\ writes' = [writes EXCEPT ![j] = @ + 1]
         /\ jstate' = [jstate EXCEPT ![j] = "done"]
  /\ wpc' = [wpc EXCEPT ![w] = "idle"]
  /\ wjob' = [wjob EXCEPT ![w] = 0]
  /\ UNCHANGED notEngine
  /\ UNCHANGED <<aion, dirExists, madeDir, run, mainpc, progress_value,
                 progress_total, lock, wreg, wslot, ions, files, outAtStart,
                 reads, incs>>

\* line 206-207: starmap returns when every job has ended; it re-raises the
\* exception of a job that raised
MainJoin ==
  /\ mainpc = "pool"
  /\ \A j \in Jobs : jstate[j] \in Terminal
  /\ mainpc' = IF \E j \in Jobs : jstate[j] = "failed" THEN "raised" ELSE "finished"
  /\ UNCHANGED notEngine
  /\ UNCHANGED <<aion, dirExists, madeDir, run, progress_value, progress_total, lock, wjob, wpc, wreg,
                 wslot, ions, jstate, files, out, outAtStart, reads, writes,
                 incs>>

\* the program is started again over the same folders: main() lines 178-179
\* create fresh counters, the files stay as the first run left them
RunAgain ==
  /\ mainpc \in {"finished", "raised"}
  /\ run = 1
  /\ run' = 2
  /\ mainpc' = "init"
  /\ progress_value' = 0
  /\ progress_total' = 1
  /\ jstate' = [j \in Jobs |-> "pending"]
  /\ outAtStart' = out
  /\ reads' = [j \in Jobs |-> 0]
  /\ incs' = [j \in Jobs |-> 0]
  /\ wreg' = [w \in Workers |-> 0]
  /\ wslot' = [w \in Workers |-> 0]
  /\ ions' = [w \in Workers |-> <<>>]
  /\ aion' = [w \in Workers |-> <<>>]
  /\ madeDir' = [j \in Jobs |-> FALSE]
  /\ UNCHANGED notEngine
  /\ UNCHANGED <<dirExists, lock, wjob, wpc, files, out, writes>>

EngineNext ==
  \/ MainStart
  \/ \E w \in Workers, j \in Jobs : TakeJob(w, j)
  \/ \E w \in Workers : CheckExists(w)
  \/ \E w \in Workers : Acquire(w)
  \/ \E w \in Workers : LoadCounter(w)
  \/ \E w \in Workers : StoreCounterSkip(w)
  \/ \E w \in Workers : ReadSlot(w)
  \/ \E w \in Workers : ReadDone(w)
  \/ \E w \in Workers : StoreCounter(w)
  \/ \E w \in Workers : CheckEmpty(w)
  \/ \E w \in Workers : Merge(w)
  \/ \E w \in Workers : CheckDir(w)
  \/ \E w \in Workers : MakeDir(w)
  \/ \E w \in Workers : WriteOutput(w)
  \/ MainJoin
  \/ RunAgain

----------------------------------------------------------------------------
(***************************************************************************)
(* ion_class.py: the merge operators of Ionogram                           *)
(*                                                                         *)
(* An Ionogram is modelled by its two lists: noise, a sequence of          *)
(* <<frequency index, amplitude>>, and echoes, a sequence of               *)
(* <<frequency index, height index, amplitude>>.  Python list positions    *)
(* start at 0, positions of a TLA+ sequence at 1.                          *)
(*                                                                         *)
(* Amplitudes are decibel values in the code.  The model holds an          *)
(* amplitude x by its linear value 10**(x/20): the code's sum              *)
(* 20*log10(10**(x/20) + 10**(y/20)) is then the sum of the linear values, *)
(* x - 20*log10(k) is the linear value divided by k, x < 0 is linear       *)
(* value < 1, and x > y keeps its meaning since 10**(x/20) is increasing.  *)
(* The operands are the Ionograms whose linear amplitudes are integers.    *)
(* Floating point rounding is not modelled.                                *)
(***************************************************************************)

MaxEchoes == 2      \* length of the echoes list of an operand
MaxK == 3           \* largest scalar an Ionogram is divided by

Amps == {1, 10}                            \* linear amplitudes: 0 dB, 20 dB
EchoKeys == {<<0, 2>>, <<0, 3>>, <<1, 2>>} \* <<frequency, height>> of operands of +
NoiseVectors == {<< <<0, x>> >> : x \in Amps} \cup {<< <<0, x>>, <<1, 1>> >> : x \in Amps}

DivAmps == {1, 2, 10}
DivKeys == {0, 1} \X {2, 3}

Key(e) == <<e[1], e[2]>>

\* the sequences of at most n echoes over keys and amps, one echo per key
EchoLists(keys, amps, n) ==
  LET triples == {<<k[1], k[2], x>> : k \in keys, x \in amps}
  IN  {s \in UNION {[1..m -> triples] : m \in 0..n} :
         \A p, q \in DOMAIN s : p # q => Key(s[p]) # Key(s[q])}

NoObject == [st |-> "none", noise |-> <<>>, echoes |-> <<>>]

\* seq[i] of Python: i is a valid index
PyIndexOk(seq, i) == -Len(seq) <= i /\ i < Len(seq)
\* seq[i] of Python, for a valid index i
PyAt(seq, i) == IF i >= 0 THEN seq[i + 1] ELSE seq[Len(seq) + i + 1]

\* 20*np.log10( 10**(x/20) + 10**(y/20) ), lines 135, 146, 166, 175
DbSum(x, y) == x + y

\* list.pop(i1), lines 151 and 179 (i a position of the sequence)
Pop(seq, i) == [p \in 1..(Len(seq) - 1) |-> IF p < i THEN seq[p] ELSE seq[p + 1]]

\* the inner loop of lines 139-154 and 169-182: the first position of
\* echoes whose echo has e1[:2] == e[:2], 0 when the loop ends without one
FirstMatchNone(echoes, e) == 0
FirstMatch(echoes, e) ==
  IF \E p \in DOMAIN echoes : Key(echoes[p]) = Key(e)
  THEN CHOOSE p \in DOMAIN echoes :
         /\ Key(echoes[p]) = Key(e)
         /\ \A q \in DOMAIN echoes : Key(echoes[q]) = Key(e) => p <= q
  ELSE 0

\* __iadd__, lines 134-135: the noise loop.  It raises IndexError at the
\* first entry of other.noise past the end of self.noise, after the entries
\* before it were updated.
IAddNoise(noise, other) ==
  [ok |-> Len(other) <= Len(noise),
   noise |-> [i \in DOMAIN noise |->
                IF i <= Len(other)
                THEN <<noise[i][1], DbSum(noise[i][2], other[i][2])>>
                ELSE noise[i]]]

\* __iadd__, lines 137-159: the loop over other.echoes from position k on,
\* self.noise being updated already.  ok is FALSE when an index of self.noise
\* raised IndexError; echoes is then the list as the exception left it.
RECURSIVE IAddEchoes(_, _, _, _)
IAddEchoes(noise, echoes, other, k) ==
  IF k > Len(other) THEN [ok |-> TRUE, echoes |-> echoes]
  ELSE
    LET e  == other[k]
        i1 == FirstMatch(echoes, e)
    IN  IF i1 # 0
        THEN LET e1 == echoes[i1]
                 sum_value == DbSum(e1[3], e[3])
             IN  IF ~PyIndexOk(noise, e1[1])
                 THEN [ok |-> FALSE, echoes |-> echoes]
                 ELSE IF sum_value > PyAt(noise, e1[1])[2]
                      THEN IAddEchoes(noise,
                                      [echoes EXCEPT ![i1] = <<e1[1], e1[2], sum_value>>],
                                      other, k + 1)
                      ELSE IAddEchoes(noise, Pop(echoes, i1), other, k + 1)
        ELSE IF ~PyIndexOk(noise, e[1])
             THEN [ok |-> FALSE, echoes |-> echoes]
             ELSE IF e[3] > PyAt(noise, e[1])[2]
                  THEN IAddEchoes(noise, Append(echoes, <<e[1], e[2], e[3]>>), other, k + 1)
                  ELSE IAddEchoes(noise, echoes, other, k + 1)

\* __iadd__, lines 133-161: self += other.  st is "returned" or "raised";
\* noise and echoes are the lists of self afterwards.
IAdd(self, other) ==
  LET n == IAddNoise(self.noise, other.noise)
  IN  IF ~n.ok
      THEN [st |-> "raised", noise |-> n.noise, echoes |-> self.echoes]
      ELSE LET r == IAddEchoes(n.noise, self.echoes, other.echoes, 1)
           IN  [st |-> IF r.ok THEN "returned" ELSE "raised",
                noise |-> n.noise, echoes |-> r.echoes]

\* __add__, lines 165-166: the noise loop on the copy c
AddNoiseKept(c, other) == [ok |-> TRUE, noise |-> c]
AddNoise(c, other) ==
  [ok |-> Len(other) <= Len(c),
   noise |-> [i \in DOMAIN c |->
                IF i <= Len(other)
                THEN <<c[i][1], DbSum(c[i][2], other[i][2])>>
                ELSE c[i]]]

\* __add__, lines 167-187: the loop over other.echoes on the copy c
RECURSIVE AddEchoes(_, _, _, _)
AddEchoes(noise, echoes, other, k) ==
  IF k > Len(other) THEN [ok |-> TRUE, echoes |-> echoes]
  ELSE
    LET e  == other[k]
        i1 == FirstMatch(echoes, e)
    IN  IF i1 # 0
        THEN LET e1 == echoes[i1]
                 sum_value == DbSum(e1[3], e[3])
             IN  IF ~PyIndexOk(noise, e1[1])
                 THEN [ok |-> FALSE, echoes |-> echoes]
                 ELSE IF sum_value > PyAt(noise, e1[1])[2]
                      THEN AddEchoes(noise,
                                     [echoes EXCEPT ![i1] = <<e1[1], e1[2], sum_value>>],
                                     other, k + 1)
                      ELSE AddEchoes(noise, Pop(echoes, i1), other, k + 1)
        ELSE IF ~PyIndexOk(noise, e[1])
             THEN [ok |-> FALSE, echoes |-> echoes]
             ELSE IF e[3] > PyAt(noise, e[1])[2]
                  THEN AddEchoes(noise, Append(echoes, <<e[1], e[2], e[3]>>), other, k + 1)
                  ELSE AddEchoes(noise, echoes, other, k + 1)

\* __add__, lines 163-188: c = copy.deepcopy(self); ...; return c.  When an
\* index raises, no object is returned and the copy is dropped.
Add(self, other) ==
  LET n == AddNoise(self.noise, other.noise)
      r == AddEchoes(n.noise, self.echoes, other.echoes, 1)
  IN  IF n.ok /\ r.ok
      THEN [st |-> "returned", noise |-> n.noise, echoes |-> r.echoes]
      ELSE [st |-> "raised", noise |-> <<>>, echoes |-> <<>>]

(***************************************************************************)
(* __truediv__.  The amplitudes of the quotient are tagged:                *)
(*   [tag |-> "lin", num, den]  the linear value num/den                   *)
(*   [tag |-> "one", ...]       the decibel value 1 (line 127)             *)
(*   [tag |-> "nan", ...]       np.nan (line 130)                          *)
(***************************************************************************)
LinAmp(n, d) == [tag |-> "lin", num |-> n, den |-> d]
OneDb == [tag |-> "one", num |-> 0, den |-> 1]
NanAmp == [tag |-> "nan", num |-> 0, den |-> 1]

\* line 116: np.argmax(np.array(c.echoes)[:, 1]), the first position
\* (from 0) of the largest value of column 1, the height index
IndexMaxByAmplitude(echoes) ==
  (CHOOSE p \in DOMAIN echoes :
     /\ \A q \in DOMAIN echoes : echoes[q][3] <= echoes[p][3]
     /\ \A q \in DOMAIN echoes : echoes[q][3] = echoes[p][3] => p <= q) - 1
IndexMax(echoes) ==
  (CHOOSE p \in DOMAIN echoes :
     /\ \A q \in DOMAIN echoes : echoes[q][2] <= echoes[p][2]
     /\ \A q \in DOMAIN echoes : echoes[q][2] = echoes[p][2] => p <= q) - 1

\* lines 117-121: noise minus 20*log10(scalar), set to 0 dB when negative
DivNoise(x, scalar) == IF x < scalar THEN LinAmp(1, 1) ELSE LinAmp(x, scalar)

\* lines 122-130: one echo of the copy, i its position from 0
DivEcho(i, x, scalar, index_max) ==
  IF i # index_max
  THEN IF x < scalar THEN NanAmp ELSE LinAmp(x, scalar)
  ELSE OneDb

\* __truediv__, lines 114-131: line 116 raises IndexError on an empty list
Div(self, scalar) ==
  IF Len(self.echoes) = 0
  THEN [st |-> "raised", noise |-> <<>>, echoes |-> <<>>]
  ELSE LET index_max == IndexMax(self.echoes)
       IN  [st |-> "returned",
            noise |-> [i \in DOMAIN self.noise |->
                         <<self.noise[i][1], DivNoise(self.noise[i][2], scalar)>>],
            echoes |-> [i \in DOMAIN self.echoes |->
                         <<self.echoes[i][1], self.echoes[i][2],
                           DivEcho(i - 1, self.echoes[i][3], scalar, index_max)>>]]

\* no merge operator is in use (the other specifications)
AlgIdle ==
  /\ opA = NoObject /\ opB = NoObject
  /\ origA = NoObject /\ origB = NoObject
  /\ sumAB = NoObject /\ sumBA = NoObject
  /\ iaddOk = "none" /\ divK = 0 /\ quot = NoObject
  /\ algpc = "idle"

\* two Ionograms a and b for c = a + b; d = b + a; a += b
AddInit ==
  /\ opA \in [st : {"object"}, noise : NoiseVectors,
              echoes : EchoLists(EchoKeys, Amps, MaxEchoes)]
  /\ opB \in [st : {"object"}, noise : NoiseVectors,
              echoes : EchoLists(EchoKeys, Amps, MaxEchoes)]
  /\ origA = opA /\ origB = opB
  /\ sumAB = NoObject /\ sumBA = NoObject
  /\ iaddOk = "none" /\ divK = 0 /\ quot = NoObject
  /\ algpc = "start"

\* c = a + b
DoAddAB ==
  /\ algpc = "start"
  /\ sumAB' = Add(opA, opB)
  /\ algpc' = "ab"
  /\ UNCHANGED notAlg
  /\ UNCHANGED <<opA, opB, origA, origB, sumBA, iaddOk, divK, quot>>

\* d = b + a
DoAddBA ==
  /\ algpc = "ab"
  /\ sumBA' = Add(opB, opA)
  /\ algpc' = "abba"
  /\ UNCHANGED notAlg
  /\ UNCHANGED <<opA, opB, origA, origB, sumAB, iaddOk, divK, quot>>

\* a += b
DoIAdd ==
  /\ algpc = "abba"
  /\ LET r == IAdd(opA, opB)
     IN  /\ opA' = [st |-> "object", noise |-> r.noise, echoes |-> r.echoes]
         /\ iaddOk' = r.st
  /\ algpc' = "iadd"
  /\ UNCHANGED notAlg
  /\ UNCHANGED <<opB, origA, origB, sumAB, sumBA, divK, quot>>

AddNext == DoAddAB \/ DoAddBA \/ DoIAdd

\* an Ionogram a and a scalar k for a / k
DivInit ==
  /\ opA \in [st : {"object"}, noise : NoiseVectors,
              echoes : EchoLists(DivKeys, DivAmps, MaxEchoes)]
  /\ divK \in 1..MaxK
  /\ opB = NoObject
  /\ origA = opA /\ origB = NoObject
  /\ sumAB = NoObject /\ sumBA = NoObject
  /\ iaddOk = "none" /\ quot = NoObject
  /\ algpc = "start"

\* q = a / k
DoDiv ==
  /\ algpc = "start"
  /\ quot' = Div(opA, divK)
  /\ algpc' = "div"
  /\ UNCHANGED notAlg
  /\ UNCHANGED <<opA, opB, origA, origB, sumAB, sumBA, iaddOk, divK>>

DivNext == DoDiv

----------------------------------------------------------------------------
(***************************************************************************)
(* The merge operators on objects.  Every list of Python is an object of   *)
(* heap: an entry [f, amp] or [f, h, amp] holds its numbers, the list      *)
(* noise or echoes of an Ionogram holds the addresses of its entries, and  *)
(* an Ionogram is the pair of the addresses of its two lists.  Two lists   *)
(* that hold one address share the entry: an assignment through one is     *)
(* seen through the other.                                                 *)
(***************************************************************************)

NoRef == [noise |-> 0, echoes |-> 0]

\* the entries of the list at address l, in the order of the list
HVals(h, l) == [i \in DOMAIN h[l] |-> h[h[l][i]]]

\* the noise and echoes of the Ionogram x as values
HObj(h, x) == [st |-> "object", noise |-> HVals(h, x.noise), echoes |-> HVals(h, x.echoes)]

\* the addresses of the lists and entries of the Ionogram x
HAddrs(h, x) ==
  {x.noise, x.echoes} \cup {h[x.noise][i] : i \in DOMAIN h[x.noise]}
                      \cup {h[x.echoes][i] : i \in DOMAIN h[x.echoes]}

\* a new list of new entries that hold the values vs
HNewList(h, vs) ==
  LET h1 == h \o vs
  IN  [heap |-> Append(h1, [i \in 1..Len(vs) |-> Len(h) + i]), addr |-> Len(h1) + 1]

\* a new Ionogram with the noise and echoes of the value v
HNewIonogram(h, v) ==
  LET n == HNewList(h, v.noise)
      e == HNewList(n.heap, v.echoes)
  IN  [heap |-> e.heap, ref |-> [noise |-> n.addr, echoes |-> e.addr]]

\* copy.deepcopy(x), lines 115 and 164 and process.py line 63
DeepCopy(h, x) == HNewIonogram(h, HObj(h, x))

\* [e[0], e[1], e[2]], lines 159 and 187: a new entry with the numbers of
\* the entry at address a
ShareEntry(h, a) == [heap |-> h, addr |-> a]
CopyEntry(h, a) == [heap |-> Append(h, h[a]), addr |-> Len(h) + 1]

\* lines 134-135 and 165-166: the noise loop from position i on, assigning
\* into the entries of self.noise
RECURSIVE HIAddNoise(_, _, _, _)
HIAddNoise(h, self, other, i) ==
  IF i > Len(h[other.noise]) THEN [ok |-> TRUE, heap |-> h]
  ELSE IF i > Len(h[self.noise]) THEN [ok |-> FALSE, heap |-> h]
  ELSE LET a == h[self.noise][i]
           e == h[h[other.noise][i]]
       IN  HIAddNoise([h EXCEPT ![a] = <<h[a][1], DbSum(h[a][2], e[2])>>],
                      self, other, i + 1)

\* lines 137-159 and 167-187: the loop over other.echoes from position k on
RECURSIVE HIAddEchoes(_, _, _, _)
HIAddEchoes(h, self, other, k) ==
  IF k > Len(h[other.echoes]) THEN [ok |-> TRUE, heap |-> h]
  ELSE
    LET ea == h[other.echoes][k]
        e  == h[ea]
        noise == HVals(h, self.noise)
        i1 == FirstMatch(HVals(h, self.echoes), e)
    IN  IF i1 # 0
        THEN LET a1 == h[self.echoes][i1]
                 e1 == h[a1]
                 sum_value == DbSum(e1[3], e[3])
             IN  IF ~PyIndexOk(noise, e1[1])
                 THEN [ok |-> FALSE, heap |-> h]
                 ELSE IF sum_value > PyAt(noise, e1[1])[2]
                      THEN HIAddEchoes([h EXCEPT ![a1] = <<e1[1], e1[2], sum_value>>],
                                       self, other, k + 1)
                      ELSE HIAddEchoes([h EXCEPT ![self.echoes] = Pop(@, i1)],
                                       self, other, k + 1)
        ELSE IF ~PyIndexOk(noise, e[1])
             THEN [ok |-> FALSE, heap |-> h]
             ELSE IF e[3] > PyAt(noise, e[1])[2]
                  THEN LET n == CopyEntry(h, ea)
                       IN  HIAddEchoes([n.heap EXCEPT ![self.echoes] = Append(@, n.addr)],
                                       self, other, k + 1)
                  ELSE HIAddEchoes(h, self, other, k + 1)

\* __iadd__, lines 133-161, on objects: the heap afterwards
HIAdd(h, self, other) ==
  LET n == HIAddNoise(h, self, other, 1)
  IN  IF ~n.ok THEN n ELSE HIAddEchoes(n.heap, self, other, 1)

\* __add__, lines 163-188, on objects: the heap afterwards and the Ionogram
\* returned
HAdd(h, self, other) ==
  LET c == DeepCopy(h, self)
      r == HIAdd(c.heap, c.ref, other)
  IN  [ok |-> r.ok, heap |-> r.heap, ref |-> IF r.ok THEN c.ref ELSE NoRef]

\* __truediv__, lines 114-131, on objects: the copy c is made, line 116
\* raises on an empty echoes list, and the loops assign into the entries of
\* c.noise and c.echoes
HDiv(h, self, scalar) ==
  LET c == DeepCopy(h, self)
      q == Div(HObj(c.heap, c.ref), scalar)
      cn == c.heap[c.ref.noise]
      ce == c.heap[c.ref.echoes]
  IN  IF q.st = "raised" THEN [ok |-> FALSE, heap |-> c.heap, ref |-> NoRef]
      ELSE [ok |-> TRUE,
            heap |-> [a \in DOMAIN c.heap |->
                        IF \E i \in DOMAIN cn : cn[i] = a
                        THEN q.noise[CHOOSE i \in DOMAIN cn : cn[i] = a]
                        ELSE IF \E i \in DOMAIN ce : ce[i] = a
                             THEN q.echoes[CHOOSE i \in DOMAIN ce : ce[i] = a]
                             ELSE c.heap[a]],
            ref |-> c.ref]

\* the Ionograms the fold is run on: loaded from files of one station, so
\* with noise lists of one length and at least one echo each
FoldLens == 1..3
FoldNoise == {<< <<0, 1>>, <<1, 1>> >>, << <<0, 10>>, <<1, 1>> >>}
FoldKeys == {<<0, 2>>, <<1, 3>>}
FoldInputs ==
  [st : {"object"}, noise : FoldNoise,
   echoes : EchoLists(FoldKeys, Amps, MaxEchoes) \ {<<>>}]

\* ions.append(Ionogram()); ions[nion].readion(fname), process.py lines
\* 49-50, for the values vals from position k on
RECURSIVE HLoad(_, _, _, _)
HLoad(h, refs, vals, k) ==
  IF k > Len(vals) THEN [heap |-> h, refs |-> refs]
  ELSE LET x == HNewIonogram(h, vals[k])
       IN  HLoad(x.heap, Append(refs, x.ref), vals, k + 1)

\* no fold is run (the other specifications)
FoldIdle ==
  /\ heap = <<>> /\ hions = <<>> /\ origIons = <<>>
  /\ hsum = NoRef /\ sum_ion = NoRef /\ ni = 0
  /\ sumBefore = NoObject /\ haion = NoRef
  /\ foldpc = "idle"

\* process() has read the files of a window into ions
FoldInit ==
  /\ origIons \in UNION {[1..n -> FoldInputs] : n \in FoldLens}
  /\ LET l == HLoad(<<>>, <<>>, origIons, 1)
     IN  heap = l.heap /\ hions = l.refs
  /\ hsum = NoRef /\ sum_ion = NoRef /\ ni = 0
  /\ sumBefore = NoObject /\ haion = NoRef
  /\ foldpc = "start"

\* c = ions[0] + ions[-1]
FoldAdd ==
  /\ foldpc = "start"
  /\ LET r == HAdd(heap, hions[1], hions[Len(hions)])
     IN  heap' = r.heap /\ hsum' = r.ref
  /\ foldpc' = "added"
  /\ UNCHANGED notFold
  /\ UNCHANGED <<hions, origIons, sum_ion, ni, sumBefore, haion>>

\* process.py line 63: sum_ion = copy.deepcopy(ions[0]); the round ni = 0 of
\* the loop of line 64 does nothing
FoldSeed ==
  /\ foldpc = "added"
  /\ LET c == DeepCopy(heap, hions[1])
     IN  heap' = c.heap /\ sum_ion' = c.ref
  /\ ni' = 1
  /\ foldpc' = "fold"
  /\ UNCHANGED notFold
  /\ UNCHANGED <<hions, origIons, hsum, sumBefore, haion>>

\* process.py lines 64-66: sum_ion += ii for the next ii of ions
FoldStep ==
  /\ foldpc = "fold"
  /\ ni < Len(hions)
  /\ LET r == HIAdd(heap, sum_ion, hions[ni + 1])
     IN  /\ heap' = r.heap
         /\ foldpc' = IF r.ok THEN "fold" ELSE "raised"
  /\ ni' = ni + 1
  /\ UNCHANGED notFold
  /\ UNCHANGED <<hions, origIons, hsum, sum_ion, sumBefore, haion>>

\* process.py line 69: aion = sum_ion / len(ions)
FoldDivide ==
  /\ foldpc = "fold"
  /\ ni >= Len(hions)
  /\ sumBefore' = HObj(heap, sum_ion)
  /\ LET r == HDiv(heap, sum_ion, Len(hions))
     IN  /\ heap' = r.heap
         /\ haion' = r.ref
         /\ foldpc' = IF r.ok THEN "divided" ELSE "raised"
  /\ UNCHANGED notFold
  /\ UNCHANGED <<hions, origIons, hsum, sum_ion, ni>>

FoldNext == FoldAdd \/ FoldSeed \/ FoldStep \/ FoldDivide

----------------------------------------------------------------------------
(***************************************************************************)
(* ion_class.py: the codec of the body (readion_binary, writeion)          *)
(*                                                                         *)
(* A 4-byte group of the body is the pair <<w1, w2>> of its two big-endian *)
(* 16-bit words.  The passport is not modelled but for nfrequences, which  *)
(* writeion() writes and readion_binary() reads back unchanged.            *)
(***************************************************************************)

MaxGroups == 5      \* groups in the body of a source file
ClusterBit == 32768 \* the bit __cluster_flag of the first byte, as a bit of w1
Align == 1          \* __align

GroupAlphabet == {<<ClusterBit + 1, Align>>, <<5, 1>>, <<42, 0>>, <<42, 2>>, <<7, 2>>, <<42, 3>>}
Bodies == UNION {[1..m -> GroupAlphabet] : m \in 0..MaxGroups}

NaN == -1           \* np.nan in a cell of ionogram_matrix
NoMatrix == <<>>    \* self.ionogram_matrix = []
NoIonogram == [st |-> "none", noise |-> <<>>, echoes |-> <<>>, nfrequences |-> 0,
               nheights |-> 0, ionogram_matrix |-> NoMatrix]
NoBody == [st |-> "none", body |-> <<>>]

\* __check_new_cluster, lines 317-321: the high bit of the first byte is set
CheckNewCluster(g) == g[1] >= ClusterBit

\* line 335: if(it == 1)
IsNoiseSampleUpToOne(it) == it <= 1
IsNoiseSample(it) == it = 1

\* line 268: (ifn+1 | 32768), the first word of a cluster header
HeaderWordNoFlag(ifn) == ifn + 1
HeaderWord(ifn) == (ifn + 1) + ClusterBit

\* __parse_ionogram, lines 323-338: the groups from position k on, ifn_
\* being the running frequency index
RECURSIVE ParseIonogram(_, _, _, _, _)
ParseIonogram(body, k, ifn_, noise, echoes) ==
  IF k > Len(body) THEN [noise |-> noise, echoes |-> echoes]
  ELSE IF CheckNewCluster(body[k])
       THEN ParseIonogram(body, k + 1, ifn_ + 1, noise, echoes)
       ELSE LET amp == body[k][1]
                it  == body[k][2]
            IN  IF IsNoiseSample(it)
                THEN ParseIonogram(body, k + 1, ifn_, Append(noise, <<ifn_, amp>>), echoes)
                ELSE ParseIonogram(body, k + 1, ifn_, noise, Append(echoes, <<ifn_, it, amp>>))

MaxOf(S) == CHOOSE x \in S : \A y \in S : y <= x

\* bytes[a:b] of Python
PySlice(bytes, a, b) == SubSeq(bytes, a + 1, IF b < Len(bytes) THEN b ELSE Len(bytes))

\* int.from_bytes(bytes, 'big') of at most two bytes; 0 for no byte
FromBytes(bytes) ==
  IF Len(bytes) = 0 THEN 0
  ELSE IF Len(bytes) = 1 THEN bytes[1]
  ELSE bytes[1] * 256 + bytes[2]

\* lines 325-333 on the last round of the loop when fewer than 4 bytes are
\* left: np.arange(0, len, 4) still gives the round, and the slices
\* [ib:ib+2] and [ib+2:ib+4] are the bytes that are there.  The first byte of
\* the tails of the model is below 128, so a short group is no header.
ShortGroup(tail) ==
  IF Len(tail) = 0 THEN <<>>
  ELSE << <<FromBytes(PySlice(tail, 0, 2)), FromBytes(PySlice(tail, 2, 4))>> >>

\* readion_binary, lines 225-242, on a new Ionogram: line 237 raises
\* IndexError when the body holds no echo, and the object stays not loaded
ReadIonBinary(body, nf) ==
  LET r == ParseIonogram(body, 1, -1, <<>>, <<>>)
  IN  IF Len(r.echoes) = 0
      THEN [st |-> "raised", noise |-> r.noise, echoes |-> r.echoes,
            nfrequences |-> nf, nheights |-> 512, ionogram_matrix |-> NoMatrix]
      ELSE [st |-> "loaded", noise |-> r.noise, echoes |-> r.echoes,
            nfrequences |-> nf,
            nheights |-> MaxOf({r.echoes[p][2] : p \in DOMAIN r.echoes}) + 1,
            ionogram_matrix |-> NoMatrix]

\* the column of ionogram_matrix that the index f selects (negative indices
\* count from the end), line 369
Column(f, nf) == IF f >= 0 THEN f ELSE nf + f

\* np.any(self.ionogram_matrix), line 364: NaN counts as true
MatrixAny(mx) == \E c \in DOMAIN mx : mx[c] # 0

\* get_ionogram, lines 366-369: the loop raises IndexError on a frequency
\* index that is no column of the matrix
FillRaises(x) ==
  \E p \in DOMAIN x.echoes :
    /\ x.echoes[p][2] < x.nheights
    /\ ~(-x.nfrequences <= x.echoes[p][1] /\ x.echoes[p][1] < x.nfrequences)

\* get_ionogram, lines 366-369: the matrix filled from the echoes, a later
\* echo overwriting an earlier one of the same cell
FilledMatrix(x) ==
  [c \in (0..(x.nheights - 1)) \X (0..(x.nfrequences - 1)) |->
     LET hits == {p \in DOMAIN x.echoes :
                    /\ x.echoes[p][2] = c[1]
                    /\ Column(x.echoes[p][1], x.nfrequences) = c[2]}
     IN  IF hits = {} THEN NaN ELSE x.echoes[MaxOf(hits)][3]]

\* get_ionogram, lines 363-370, with recalc=False: the Ionogram afterwards
\* (its matrix is stored) and whether the call raised
GetIonogram(x) ==
  IF MatrixAny(x.ionogram_matrix)
  THEN [raised |-> FALSE, ion |-> x]
  ELSE IF FillRaises(x)
       THEN [raised |-> TRUE, ion |-> x]
       ELSE [raised |-> FALSE, ion |-> [x EXCEPT !.ionogram_matrix = FilledMatrix(x)]]

\* writeion, lines 273-276: the echo groups of the column ifn from row it on
RECURSIVE WriteColumn(_, _, _, _)
WriteColumn(amp, ifn, it, nheights) ==
  IF it >= nheights THEN <<>>
  ELSE (IF amp[<<it, ifn>>] # NaN THEN << <<amp[<<it, ifn>>], it>> >> ELSE <<>>)
       \o WriteColumn(amp, ifn, it + 1, nheights)

\* writeion, lines 267-276: the clusters from frequency ifn on.  noise[ifn, 1]
\* raises IndexError past the end of the noise list, after the header group
\* of that cluster was written.
RECURSIVE WriteClusters(_, _, _)
WriteClusters(x, amp, ifn) ==
  IF ifn >= x.nfrequences THEN [st |-> "written", body |-> <<>>]
  ELSE IF ifn >= Len(x.noise)
       THEN [st |-> "raised", body |-> << <<HeaderWord(ifn), Align>> >>]
       ELSE LET rest == WriteClusters(x, amp, ifn + 1)
            IN  [st |-> rest.st,
                 body |-> << <<HeaderWord(ifn), Align>>, <<x.noise[ifn + 1][2], Align>> >>
                          \o WriteColumn(amp, ifn, 0, x.nheights)
                          \o rest.body]

\* writeion, lines 244-279, to a file that does not exist
WriteIon(x) ==
  IF x.st # "loaded" THEN [ion |-> x, file |-> NoBody]
  ELSE LET g == GetIonogram(x)
       IN  IF g.raised
           THEN [ion |-> g.ion, file |-> [st |-> "raised", body |-> <<>>]]
           ELSE [ion |-> g.ion, file |-> WriteClusters(g.ion, g.ion.ionogram_matrix, 0)]

\* the codec is not in use (the other specifications)
CodecIdle ==
  /\ srcBody = <<>> /\ srcTail = <<>> /\ srcNF = 0
  /\ ion = NoIonogram /\ outBody = NoBody /\ ion2 = NoIonogram
  /\ codpc = "idle"

\* a source file of whole groups
CodecInit ==
  /\ srcBody \in Bodies
  /\ srcTail = <<>>
  /\ srcNF \in {1, 2}
  /\ ion = NoIonogram /\ outBody = NoBody /\ ion2 = NoIonogram
  /\ codpc = "start"

\* ion = Ionogram(); ion.readion(source file)
DoRead ==
  /\ codpc = "start"
  /\ ion' = ReadIonBinary(srcBody \o ShortGroup(srcTail), srcNF)
  /\ codpc' = "read"
  /\ UNCHANGED notCodec
  /\ UNCHANGED <<srcBody, srcTail, srcNF, outBody, ion2>>

\* ion.writeion(new file)
DoWrite ==
  /\ codpc = "read"
  /\ LET w == WriteIon(ion)
     IN  /\ ion' = w.ion
         /\ outBody' = w.file
  /\ codpc' = "written"
  /\ UNCHANGED notCodec
  /\ UNCHANGED <<srcBody, srcTail, srcNF, ion2>>

\* ion2 = Ionogram(); ion2.readion(new file)
DoReadBack ==
  /\ codpc = "written"
  /\ outBody.st = "written"
  /\ ion2' = ReadIonBinary(outBody.body, ion.nfrequences)
  /\ codpc' = "readback"
  /\ UNCHANGED notCodec
  /\ UNCHANGED <<srcBody, srcTail, srcNF, ion, outBody>>

CodecNext == DoRead \/ DoWrite \/ DoReadBack

\* the files given to the decoder alone: whole groups, then 0 to 3 bytes
DecodeAlphabet == {<<ClusterBit + 1, Align>>, <<5, 1>>, <<42, 10>>, <<42, 0>>, <<7, 2>>}
DecodeBodies == UNION {[1..m -> DecodeAlphabet] : m \in 0..MaxGroups}
TailBytes == {1, 5}
Tails == UNION {[1..m -> TailBytes] : m \in 0..3}

DecodeInit ==
  /\ srcBody \in DecodeBodies
  /\ srcTail \in Tails
  /\ srcNF = 1
  /\ ion = NoIonogram /\ outBody = NoBody /\ ion2 = NoIonogram
  /\ codpc = "start"

DecodeNext == DoRead

----------------------------------------------------------------------------
(***************************************************************************)
(* process.py: main() builds the list of window jobs                       *)
(***************************************************************************)

MaxSpan == 2          \* date_to is at most this many days after date_from
HoursPerDay == 24     \* range(0, 24)
MinutesPerHour == 60  \* range(0, 60, dm)
SecondsPerMinute == 60 \* range(s_start, 60, 15)
SecondsStep == 15

\* the calendar the dates of the environment are taken from
DaysInMonth(y, m) ==
  IF m \in {4, 6, 9, 11} THEN 30
  ELSE IF m = 2 THEN (IF y % 4 = 0 /\ (y % 100 # 0 \/ y % 400 = 0) THEN 29 ELSE 28)
  ELSE 31
MonthsOfCalendar == {<<2019, 12>>, <<2020, 1>>, <<2020, 2>>, <<2020, 3>>}
Calendar == {<<ym[1], ym[2], d>> : ym \in MonthsOfCalendar, d \in 1..31} \cap
            {x \in (2019..2020) \X (1..12) \X (1..31) : x[3] <= DaysInMonth(x[1], x[2])}
DateLeq(a, b) ==
  \/ a[1] < b[1]
  \/ a[1] = b[1] /\ a[2] < b[2]
  \/ a[1] = b[1] /\ a[2] = b[2] /\ a[3] <= b[3]
DaysAfter(a, b) == Cardinality({x \in Calendar : DateLeq(a, x) /\ DateLeq(x, b) /\ x # a})

DmValues == {5, 7, 12, 15, 20, 30, 60}
StartSeconds == {0, 3}

\* range(a, b)
Range(a, b) == [i \in 1..(b - a) |-> a + i - 1]
\* range(a, b, step)
RangeStep(a, b, step) == [i \in 1..((b - a - 1) \div step + 1) |-> a + (i - 1) * step]

\* line 188: the end minute m + dm of a window
WindowEndOverlapping(m, delta) == m + delta + 1
WindowEnd(m, delta) == m + delta

\* main(), lines 182-188: the nested loops that fill args
BuildArgs(from, to, delta) ==
  LET years  == Range(from[1], to[1] + 1)
      months == Range(from[2], to[2] + 1)
      days   == Range(from[3], to[3] + 1)
      hours  == Range(0, HoursPerDay)
      mins   == RangeStep(0, MinutesPerHour, delta)
      n      == Len(years) * Len(months) * Len(days) * Len(hours) * Len(mins)
  IN  [i \in 1..n |->
         LET k0 == i - 1
             k1 == k0 \div Len(mins)
             k2 == k1 \div Len(hours)
             k3 == k2 \div Len(days)
             k4 == k3 \div Len(months)
             m  == mins[(k0 % Len(mins)) + 1]
         IN  <<years[k4 + 1], months[(k3 % Len(months)) + 1], days[(k2 % Len(days)) + 1],
               hours[(k1 % Len(hours)) + 1], m, WindowEnd(m, delta)>>]

\* process(), lines 41-43: the source files a window job looks for, each
\* named by <<year, month, day, hour, minute, second>>
SourceFiles(job, start) ==
  LET ms == Range(job[5], job[6])
      ss == RangeStep(start, SecondsPerMinute, SecondsStep)
  IN  {<<job[1], job[2], job[3], job[4], ms[i], ss[j]>> : i \in DOMAIN ms, j \in DOMAIN ss}

LowRes == 512         \* get_dimension(), line 350
HighRes == 1024       \* get_dimension(), line 349

\* get_dimension() of the Ionogram read from the file f, lines 130-132
Resolution(f, high) == IF f \in high THEN HighRes ELSE LowRes

\* line 125: ifname, the name of a source file without its folder
FileName(f) == <<f[2], f[3], f[4], f[5], f[6]>>

\* check_resolution(), lines 119-126: the files the nested loops look for,
\* in the order of the loops
CheckedFiles(from, to, delta, start) ==
  LET years  == Range(from[1], to[1] + 1)
      months == Range(from[2], to[2] + 1)
      days   == Range(from[3], to[3] + 1)
      hours  == Range(0, HoursPerDay)
      mins   == RangeStep(0, MinutesPerHour, delta)
      secs   == RangeStep(start, SecondsPerMinute, SecondsStep)
      n      == Len(years) * Len(months) * Len(days) * Len(hours) * Len(mins) * Len(secs)
  IN  [i \in 1..n |->
         LET k0 == (i - 1) \div Len(secs)
             k1 == k0 \div Len(mins)
             k2 == k1 \div Len(hours)
             k3 == k2 \div Len(days)
             k4 == k3 \div Len(months)
         IN  <<years[k4 + 1], months[(k3 % Len(months)) + 1], days[(k2 % Len(days)) + 1],
               hours[(k1 % Len(hours)) + 1], mins[(k0 % Len(mins)) + 1],
               secs[((i - 1) % Len(secs)) + 1]>>]

NoResult == [first |-> 0, names |-> <<>>]   \* result = [None, []], line 118

\* check_resolution(), lines 108-137, every file the loops look for existing:
\* result[0] is the resolution of the first file, result[1] the names of the
\* files after it whose resolution is another one
CheckResolution(from, to, delta, start, high) ==
  LET fs == CheckedFiles(from, to, delta, start)
  IN  IF Len(fs) = 0 THEN NoResult
      ELSE LET first == Resolution(fs[1], high)
               other == SelectSeq(fs, LAMBDA f : Resolution(f, high) # first)
           IN  [first |-> first, names |-> [i \in DOMAIN other |-> FileName(other[i])]]

\* main() is not run (the other specifications)
EnumIdle ==
  /\ date_from = <<0, 0, 0>> /\ date_to = <<0, 0, 0>>
  /\ dm = 0 /\ s_start = 0 /\ args = <<>> /\ enpc = "idle"
  /\ hires = {} /\ res_warn = NoResult

\* the environment: init_globals(), lines 96-106
EnumInit ==
  /\ date_from \in Calendar
  /\ date_to \in {x \in Calendar : DateLeq(date_from, x) /\ DaysAfter(date_from, x) <= MaxSpan}
  /\ dm \in DmValues
  /\ s_start \in StartSeconds
  /\ args = <<>>
  /\ hires = {} /\ res_warn = NoResult
  /\ enpc = "env"

\* main(), lines 182-190: args is built; the print of line 190 raises
\* IndexError when args holds fewer than two jobs
MainBuildArgs ==
  /\ enpc = "env"
  /\ args' = BuildArgs(date_from, date_to, dm)
  /\ enpc' = IF Len(args') < 2 THEN "raised" ELSE "built"
  /\ UNCHANGED notEnum
  /\ UNCHANGED <<date_from, date_to, dm, s_start, hires, res_warn>>

EnumNext == MainBuildArgs

\* the environment of a run with the flag --check: every expected source
\* file exists, and the files of hires are those of 1024 heights
CheckInit ==
  /\ date_from \in Calendar
  /\ date_to \in {x \in Calendar : DateLeq(date_from, x) /\ DaysAfter(date_from, x) <= 1}
  /\ dm \in {5, 20, 60}
  /\ s_start \in StartSeconds
  /\ args = <<>>
  /\ hires \in SUBSET {<<date_from[1], date_from[2], date_from[3], 0, 1, s_start>>,
                        <<date_from[1], date_from[2], date_from[3], 1, 0, s_start>>}
  /\ res_warn = NoResult
  /\ enpc = "env"

\* main(), lines 192-198: res_warn = check_resolution()
MainCheckResolution ==
  /\ enpc = "built"
  /\ res_warn' = CheckResolution(date_from, date_to, dm, s_start, hires)
  /\ enpc' = "checked"
  /\ UNCHANGED notEnum
  /\ UNCHANGED <<date_from, date_to, dm, s_start, args, hires>>

CheckNext == MainBuildArgs \/ MainCheckResolution

----------------------------------------------------------------------------
(***************************************************************************)
(* The dense matrix of an Ionogram, ion_class.py lines 363-370, under      *)
(* in-place additions.  The amplitudes are held by their linear values as  *)
(* in the merge operators.  The echoes of a file lie at height indices     *)
(* from 2 on, so rows 0 and 1 of every matrix filled here hold NaN.        *)
(***************************************************************************)

MaxOps == 3         \* operations done on the Ionogram a

\* readion_binary, lines 225-240: the Ionogram after a file with these noise
\* samples and echoes is read, the passport naming one frequency per cluster
\* (line 306); ionogram_matrix is still [] (line 61)
ViewLoaded(noise, echoes) ==
  [st |-> "loaded", noise |-> noise, echoes |-> echoes,
   nfrequences |-> Len(noise),
   nheights |-> MaxOf({echoes[p][2] : p \in DOMAIN echoes}) + 1,
   ionogram_matrix |-> NoMatrix]

\* the echo lists of at most n echoes of a file with the noise samples noise:
\* at least one echo, each on a frequency of the file
ViewEchoes(noise, n) ==
  {l \in EchoLists(EchoKeys, Amps, n) :
     /\ l # <<>>
     /\ \A p \in DOMAIN l : l[p][1] < Len(noise)}

\* the Ionograms a of the operations
ViewInputs ==
  UNION {{ViewLoaded(n, e) : e \in ViewEchoes(n, MaxEchoes)} : n \in NoiseVectors}

\* the Ionograms b added to a
ViewOthers ==
  UNION {{ViewLoaded(n, e) : e \in ViewEchoes(n, 1)} : n \in NoiseVectors}

\* no Ionogram is viewed (the other specifications)
ViewIdle ==
  /\ vion = NoIonogram /\ vother = NoIonogram
  /\ vret = NoMatrix /\ vops = 0 /\ viewpc = "idle"

\* a and b are loaded from their files
ViewInit ==
  /\ vion \in ViewInputs
  /\ vother \in ViewOthers
  /\ vret = NoMatrix /\ vops = 0 /\ viewpc = "loaded"

\* m = a.get_ionogram(), lines 363-370
DoGetIonogram ==
  /\ viewpc \in {"loaded", "got", "added"}
  /\ vops < MaxOps
  /\ LET g == GetIonogram(vion)
     IN  /\ vion' = g.ion
         /\ vret' = IF g.raised THEN vret ELSE g.ion.ionogram_matrix
         /\ viewpc' = IF g.raised THEN "raised" ELSE "got"
  /\ vops' = vops + 1
  /\ UNCHANGED vother
  /\ UNCHANGED notView

\* a += b, lines 133-161: noise and echoes of a change, nheights,
\* nfrequences and ionogram_matrix are not assigned
DoViewIAdd ==
  /\ viewpc \in {"loaded", "got", "added"}
  /\ vops < MaxOps
  /\ LET r == IAdd(vion, vother)
     IN  /\ vion' = [vion EXCEPT !.noise = r.noise, !.echoes = r.echoes]
         /\ viewpc' = IF r.st = "raised" THEN "raised" ELSE "added"
  /\ vops' = vops + 1
  /\ UNCHANGED <<vother, vret>>
  /\ UNCHANGED notView

ViewNext == DoGetIonogram \/ DoViewIAdd

----------------------------------------------------------------------------
(***************************************************************************)
(* The specifications                                                      *)
(***************************************************************************)

\* the engine
Init == EngineInit /\ AlgIdle /\ CodecIdle /\ EnumIdle /\ FoldIdle /\ ViewIdle
Next == EngineNext
Spec == Init /\ [][Next]_vars

\* c = a + b; d = b + a; a += b
InitAdd == EngineIdle /\ AddInit /\ CodecIdle /\ EnumIdle /\ FoldIdle /\ ViewIdle
SpecAdd == InitAdd /\ [][AddNext]_vars

\* q = a / k
InitDiv == EngineIdle /\ DivInit /\ CodecIdle /\ EnumIdle /\ FoldIdle /\ ViewIdle
SpecDiv == InitDiv /\ [][DivNext]_vars

\* c = ions[0] + ions[-1], then the fold and the division of process()
InitFold == EngineIdle /\ AlgIdle /\ CodecIdle /\ EnumIdle /\ FoldInit /\ ViewIdle
SpecFold == InitFold /\ [][FoldNext]_vars

\* a file is read, written again and read back
InitCodec == EngineIdle /\ AlgIdle /\ CodecInit /\ EnumIdle /\ FoldIdle /\ ViewIdle
SpecCodec == InitCodec /\ [][CodecNext]_vars

\* a file is decoded
InitDecode == EngineIdle /\ AlgIdle /\ DecodeInit /\ EnumIdle /\ FoldIdle /\ ViewIdle
SpecDecode == InitDecode /\ [][DecodeNext]_vars

\* main() builds args from the environment
InitEnum == EngineIdle /\ AlgIdle /\ CodecIdle /\ EnumInit /\ FoldIdle /\ ViewIdle
SpecEnum == InitEnum /\ [][EnumNext]_vars

\* main() with the flag --check builds args and checks the resolutions
InitCheck == EngineIdle /\ AlgIdle /\ CodecIdle /\ CheckInit /\ FoldIdle /\ ViewIdle
SpecCheck == InitCheck /\ [][CheckNext]_vars

\* a sequence of a += b and a.get_ionogram() on a loaded Ionogram a
InitView == EngineIdle /\ AlgIdle /\ CodecIdle /\ EnumIdle /\ FoldIdle /\ ViewInit
SpecView == InitView /\ [][ViewNext]_vars

----------------------------------------------------------------------------
(***************************************************************************)
(* Claims about the engine                                                 *)
(***************************************************************************)

Incremented == {j \in Jobs : incs[j] >= 1}
GoodSlots(j) == {s \in Slots : files[j][s] = "good"}
HasBad(j) == \E s \in Slots : files[j][s] = "bad"

\* C1: every window job that ends skipped, empty or done has incremented the
\* shared completed counter exactly once, every increment is done while the
\* job's worker holds the lock, no increment is lost (the counter equals the
\* number of increments performed), 0 <= completed <= total, and when all
\* jobs have returned completed = total.
C1_ProgressCounter ==
  /\ \A j \in Jobs : incs[j] \in {0, 1}
  /\ \A j \in Jobs : jstate[j] \in {"skipped", "empty", "done"} => incs[j] = 1
  /\ \A w \in Workers : wpc[w] \in {"skip_load", "skip_store", "load", "store"} => lock = w
  /\ progress_value = Cardinality(Incremented)
  /\ 0 <= progress_value /\ progress_value <= progress_total
  /\ (mainpc = "finished" => progress_value = progress_total)

\* C1 witness: a run has finished with both workers having incremented
C1_Witness ==
  /\ mainpc = "finished"
  /\ progress_value = NumJobs
  /\ \E j \in Jobs : jstate[j] = "done"
  /\ \E j \in Jobs : jstate[j] = "empty"

\* C2: a job whose output file exists when the run starts reads no source
\* file and leaves the file as it was; over the two runs every output file
\* is written at most once, and in the second run no source file is read for
\* a window whose output the first run produced.
C2_IdempotentSkip ==
  \A j \in Jobs :
    /\ writes[j] <= 1
    /\ outAtStart[j].exists =>
         /\ reads[j] = 0
         /\ out[j] = outAtStart[j]
         /\ jstate[j] \in {"pending", "running", "skipped"}

\* C2 witness: in the second run a job was skipped over the output that the
\* first run wrote
C2_Witness ==
  \E j \in Jobs :
    /\ run = 2
    /\ jstate[j] = "skipped"
    /\ writes[j] = 1
    /\ reads[j] = 0
    /\ GoodSlots(j) # {}

\* C3: a source file that fails to load is the only one left out: the job
\* still merges the files that loaded, writes their average, increments the
\* counter and ends in a terminal state of its own.
C3_LoadFailureSkipsOnlyThatFile ==
  \A j \in Jobs :
    (run = 1 /\ HasBad(j) /\ GoodSlots(j) # {} /\ jstate[j] \in Terminal) =>
       /\ jstate[j] = "done"
       /\ incs[j] = 1
       /\ out[j].exists
       /\ {out[j].data[i] : i \in 1..Len(out[j].data)} = GoodSlots(j)

ExistingSlots(j) == {s \in Slots : files[j][s] # "missing"}
GoodSeq(j) == SelectSeq([s \in 1..LastSlot |-> s], LAMBDA s : files[j][s] = "good")

\* C12: a window job makes the output directory and writes its output file
\* only after it has read every existing source file of the window and the
\* fold and the division are done (the file holds the average of all of
\* them); a job that finds no source file makes neither a file nor a
\* directory.
C12_WriteAfterFullMerge ==
  /\ \A w \in Workers :
       wpc[w] \in {"dircheck", "mkdir", "write"} =>
         /\ wslot[w] > LastSlot
         /\ reads[wjob[w]] = Cardinality(ExistingSlots(wjob[w]))
         /\ aion[w] = GoodSeq(wjob[w])
         /\ Len(aion[w]) > 0
  /\ \A j \in Jobs :
       /\ out[j] # outAtStart[j] =>
            /\ out[j] = [exists |-> TRUE, data |-> GoodSeq(j)]
            /\ reads[j] = Cardinality(ExistingSlots(j))
       /\ madeDir[j] =>
            /\ GoodSlots(j) # {}
            /\ reads[j] = Cardinality(ExistingSlots(j))
            /\ jstate[j] \in {"running", "done", "failed"}
       /\ jstate[j] = "empty" =>
            /\ ~madeDir[j]
            /\ out[j] = NoFile

\* C12 witness: a job has made the directory and written the average of its
\* two source files, another job has found no source file
C12_Witness ==
  \E j, k \in Jobs :
    /\ run = 1
    /\ jstate[j] = "done" /\ madeDir[j] /\ out[j].data = <<1, 2>>
    /\ jstate[k] = "empty"

\* C17: the completed counter counts terminal jobs only: a job that has
\* done its increment has ended (skipped, found empty, or its output file is
\* written), so when completed = total every window that has a readable
\* source file has its output file.
C17_CounterCountsFinishedJobs ==
  /\ \A j \in Jobs :
       (incs[j] >= 1 /\ GoodSlots(j) # {}) =>
         /\ jstate[j] \in {"skipped", "done"}
         /\ out[j].exists
  /\ progress_value = progress_total =>
       \A j \in Jobs : (GoodSlots(j) # {} /\ ~HasBad(j)) => out[j].exists

\* the output file of job j after a run that started with no output file, as
\* the source files alone determine it
ExpectedOut(j) ==
  IF GoodSlots(j) # {} /\ ~HasBad(j)
  THEN [exists |-> TRUE, data |-> GoodSeq(j)]
  ELSE NoFile

\* C13: the output files and their contents after a run are determined by
\* the source files: they are the same for every order and interleaving in
\* which the pool workers execute the jobs.
C13_OutputsIndependentOfInterleaving ==
  (run = 1 /\ mainpc \in {"finished", "raised"}) =>
    \A j \in Jobs : out[j] = ExpectedOut(j)

----------------------------------------------------------------------------
(***************************************************************************)
(* Claims about the merge operators                                        *)
(***************************************************************************)

KeySet(echoes) == {Key(echoes[p]) : p \in DOMAIN echoes}

\* C4: merge commutativity: for Ionograms a and b with noise lists of one
\* length and one echo per (frequency, height), a + b and b + a have the
\* same noise list and the same set of surviving (frequency, height) pairs.
C4_AddCommutes ==
  (/\ sumAB.st = "returned" /\ sumBA.st = "returned"
   /\ Len(origA.noise) = Len(origB.noise))
  => /\ sumAB.noise = sumBA.noise
     /\ KeySet(sumAB.echoes) = KeySet(sumBA.echoes)

EchoesAboveNoise(x) ==
  \A p \in DOMAIN x.echoes :
    /\ PyIndexOk(x.noise, x.echoes[p][1])
    /\ x.echoes[p][3] > PyAt(x.noise, x.echoes[p][1])[2]

\* C5: after a += b, and in the result of a + b, every echo has an
\* amplitude strictly greater than the combined noise at the echo's
\* frequency index.
C5_EchoesAboveCombinedNoise ==
  /\ (algpc = "iadd" /\ iaddOk = "returned") => EchoesAboveNoise(opA)
  /\ sumAB.st = "returned" => EchoesAboveNoise(sumAB)

Misaligned(a, b) ==
  \/ Len(a.noise) # Len(b.noise)
  \/ \E p \in DOMAIN b.echoes : ~PyIndexOk(a.noise, b.echoes[p][1])

\* C10: a + b and a += b on operands whose noise lists differ in length, or
\* where an echo of b has a frequency index without a noise entry in a,
\* raise an error, and a failed a += b leaves a as it was.
C10_MisalignedAddFails ==
  Misaligned(origA, origB) =>
    /\ sumAB.st \in {"none", "raised"}
    /\ iaddOk \in {"none", "raised"}
    /\ opA = origA

\* readion_binary, lines 237-238: nheights = imaxheight + 1, set when the
\* Ionogram is loaded and assigned nowhere else
NHeightsAtLoad(echoes) ==
  (CHOOSE h \in {echoes[p][2] : p \in DOMAIN echoes} :
     \A p \in DOMAIN echoes : echoes[p][2] <= h) + 1

\* C14: index bounds: after a += b every echo of a has a height index below
\* the height count of a (its largest height index at load, plus one), also
\* when b holds echoes at height indices above that.
C14_HeightIndexBelowHeightCount ==
  (algpc = "iadd" /\ iaddOk = "returned" /\ Len(origA.echoes) > 0) =>
    \A p \in DOMAIN opA.echoes : opA.echoes[p][2] < NHeightsAtLoad(origA.echoes)

KeysUnique(echoes) ==
  \A p, q \in DOMAIN echoes : p # q => Key(echoes[p]) # Key(echoes[q])

\* C18: addition keeps the echoes unique: the operands holding at most one
\* echo per (frequency index, height index), so does the result of a + b,
\* and so does sum_ion after every += of the fold.
C18_AddKeepsEchoesUnique ==
  /\ hsum # NoRef => KeysUnique(HVals(heap, hsum.echoes))
  /\ sum_ion # NoRef => KeysUnique(HVals(heap, sum_ion.echoes))

\* C18 witness: three Ionograms are folded, sum_ion holds two echoes and
\* one of them is the sum of three
C18_Witness ==
  /\ foldpc = "fold" /\ Len(hions) = 3 /\ ni = 3
  /\ hsum # NoRef
  /\ Len(heap[sum_ion.echoes]) = 2
  /\ \E i \in DOMAIN heap[sum_ion.echoes] : heap[heap[sum_ion.echoes][i]][3] = 30

\* the Ionograms that operators have returned so far
Returned == {hsum, sum_ion, haion} \ {NoRef}

\* C19: frame of the merge operators: a + b and a / k return an Ionogram
\* of new lists and entries and leave their operands as they were; a += b
\* leaves b as it was and a shares no list and no entry with b, so a later
\* assignment into a's echoes does not reach b; the fold of process()
\* leaves every Ionogram of ions, the seed ions[0] too, as it was read.
C19_MergeOperatorsFrame ==
  /\ \A i \in DOMAIN hions : HObj(heap, hions[i]) = origIons[i]
  /\ \A i \in DOMAIN hions : \A x \in Returned :
       HAddrs(heap, x) \cap HAddrs(heap, hions[i]) = {}
  /\ \A x, y \in Returned : x # y => HAddrs(heap, x) \cap HAddrs(heap, y) = {}
  /\ foldpc = "divided" => HObj(heap, sum_ion) = sumBefore

\* C19 witness: three Ionograms are folded and divided; an echo that the
\* first += took over from ions[1] was assigned to by the second +=
C19_Witness ==
  /\ foldpc = "divided" /\ Len(hions) = 3
  /\ hsum # NoRef
  /\ \E k \in FoldKeys :
       /\ k \notin KeySet(origIons[1].echoes)
       /\ \E p \in DOMAIN origIons[2].echoes, q \in DOMAIN origIons[3].echoes,
             r \in DOMAIN sumBefore.echoes :
            /\ Key(origIons[2].echoes[p]) = k
            /\ Key(origIons[3].echoes[q]) = k
            /\ sumBefore.echoes[r] =
                 <<k[1], k[2], origIons[2].echoes[p][3] + origIons[3].echoes[q][3]>>

\* C20: the two addition operators agree: a + b returns an Ionogram exactly
\* when a += b from the same a and b returns, and it then has the noise list
\* and the echo list (same triples, same order) that a has after a += b.
C20_AddAgreesWithIAdd ==
  algpc = "iadd" =>
    /\ (sumAB.st = "returned") <=> (iaddOk = "returned")
    /\ iaddOk = "returned" =>
         /\ sumAB.noise = opA.noise
         /\ sumAB.echoes = opA.echoes

\* C20 witness: an addition that changed the noise, dropped or changed an
\* echo of a and appended an echo of b
C20_Witness ==
  /\ algpc = "iadd" /\ iaddOk = "returned"
  /\ opA.noise # origA.noise
  /\ Len(origA.echoes) = 2 /\ Len(opA.echoes) = 2
  /\ opA.echoes[1] # origA.echoes[1]
  /\ opA.echoes[2] \in {origB.echoes[i] : i \in DOMAIN origB.echoes}

----------------------------------------------------------------------------
(***************************************************************************)
(* Claims about the codec                                                  *)
(***************************************************************************)

\* a loaded Ionogram of valid geometry: one noise entry per frequency index
\* 0..nfrequences-1, frequency and height indices within bounds, and (data
\* model of the Record) at most one echo per (frequency, height)
ValidGeometry(x) ==
  /\ x.st = "loaded"
  /\ Len(x.noise) = x.nfrequences
  /\ \A i \in DOMAIN x.noise : x.noise[i][1] = i - 1
  /\ \A p \in DOMAIN x.echoes :
       /\ 0 <= x.echoes[p][1] /\ x.echoes[p][1] < x.nfrequences
       /\ 0 <= x.echoes[p][2] /\ x.echoes[p][2] < x.nheights
  /\ \A p, q \in DOMAIN x.echoes : p # q => Key(x.echoes[p]) # Key(x.echoes[q])

EchoSet(x) == {x.echoes[p] : p \in DOMAIN x.echoes}

C16_DecodeInFileOrder ==
  (codpc = "read" /\ Len(srcTail) = 0) =>
    LET idx == [k \in 1..Len(srcBody) |-> k]
        hdr(k) == srcBody[k][1] >= ClusterBit
        fidx(k) == Cardinality({q \in 1..k : hdr(q)}) - 1
        np == SelectSeq(idx, LAMBDA k : ~hdr(k) /\ srcBody[k][2] = 1)
        ep == SelectSeq(idx, LAMBDA k : ~hdr(k) /\ srcBody[k][2] # 1)
    IN  /\ ion.noise = [i \in DOMAIN np |-> <<fidx(np[i]), srcBody[np[i]][1]>>]
        /\ ion.echoes = [i \in DOMAIN ep |->
                           <<fidx(ep[i]), srcBody[ep[i]][2], srcBody[ep[i]][1]>>]
        /\ srcBody = << <<ClusterBit + 1, 1>>, <<5, 1>>, <<42, 10>> >> =>
             /\ ion.noise = << <<0, 5>> >>
             /\ ion.echoes = << <<0, 10, 42>> >>

\* C16 witness: the example file is decoded
C16_Witness ==
  /\ codpc = "read" /\ Len(srcTail) = 0
  /\ ion.st = "loaded"
  /\ srcBody = << <<ClusterBit + 1, 1>>, <<5, 1>>, <<42, 10>> >>
  /\ ion.noise = << <<0, 5>> >>
  /\ ion.echoes = << <<0, 10, 42>> >>

\* C11: decoding a body whose last group has fewer than 4 bytes fails: the
\* Ionogram is not marked as loaded, and its noise and echoes hold no sample
\* made from the short group.
C11_TruncatedBodyFails ==
  (codpc = "read" /\ Len(srcTail) > 0) =>
    LET whole == ParseIonogram(srcBody, 1, -1, <<>>, <<>>)
    IN  /\ ion.st # "loaded"
        /\ ion.noise = whole.noise
        /\ ion.echoes = whole.echoes

----------------------------------------------------------------------------
(***************************************************************************)
(* Claims about the window jobs                                            *)
(***************************************************************************)

DateOf(job) == <<job[1], job[2], job[3]>>
JobsOfDate(d) == {i \in DOMAIN args : DateOf(args[i]) = d}

\* C8: for every calendar date d with date_from <= d <= date_to there is a
\* window job for every hour and every window start minute of d, and no job
\* is for a date outside the range.
C8_EveryDateOfRange ==
  enpc \in {"built", "raised"} =>
    /\ \A d \in Calendar :
         (DateLeq(date_from, d) /\ DateLeq(d, date_to)) =>
            {<<args[i][4], args[i][5]>> : i \in JobsOfDate(d)} =
              (0..(HoursPerDay - 1)) \X {k * dm : k \in 0..((MinutesPerHour - 1) \div dm)}
    /\ \A i \in DOMAIN args :
         /\ DateOf(args[i]) \in Calendar
         /\ DateLeq(date_from, DateOf(args[i])) /\ DateLeq(DateOf(args[i]), date_to)

\* C9: for one day and a window size that divides 60 there are exactly
\* 24 * (60 / dm) window jobs (288 for dm = 5), the minute ranges of the
\* windows of an hour are pairwise disjoint and cover the minutes 0..59, and
\* no source file is looked for by two window jobs.
C9_OneDayWindows ==
  (enpc \in {"built", "raised"} /\ date_from = date_to /\ MinutesPerHour % dm = 0) =>
    /\ enpc = "built"
    /\ Len(args) = 24 * (60 \div dm)
    /\ dm = 5 => Len(args) = 288
    /\ \A i \in DOMAIN args : DateOf(args[i]) = date_from
    /\ \A h \in 0..23 :
         LET js == {i \in DOMAIN args : args[i][4] = h}
             sf == [i \in js |-> SourceFiles(args[i], s_start)]
         IN  /\ UNION {args[i][5]..(args[i][6] - 1) : i \in js} = 0..59
             /\ \A i, j \in js : i < j => sf[i] \cap sf[j] = {}

\* C9 witness: the 288 windows of 2020-01-01 for 5 minutes
C9_Witness ==
  /\ enpc = "built"
  /\ date_from = <<2020, 1, 1>> /\ date_to = <<2020, 1, 1>>
  /\ dm = 5
  /\ Len(args) = 288
  /\ args[288] = <<2020, 1, 1, 23, 55, 60>>

\* the source files the window jobs of args read
ReadByEngine(f) ==
  \E i \in DOMAIN args :
    /\ DateOf(args[i]) = <<f[1], f[2], f[3]>>
    /\ args[i][4] = f[4]
    /\ f \in SourceFiles(args[i], s_start)

\* C15: check_resolution() examines every existing source file the window
\* jobs read: every file of another resolution than the first file, at any
\* minute, is named in its result, and the result names no other file.
C15_CheckCoversEveryFile ==
  enpc = "checked" =>
    LET first == <<date_from[1], date_from[2], date_from[3], 0, 0, s_start>>
        named == {res_warn.names[i] : i \in DOMAIN res_warn.names}
    IN  /\ res_warn.first = Resolution(first, hires)
        /\ \A f \in hires :
             (ReadByEngine(f) /\ Resolution(f, hires) # res_warn.first)
               => FileName(f) \in named
        /\ \A nm \in named : \E f \in hires : FileName(f) = nm /\ ReadByEngine(f)

----------------------------------------------------------------------------
(***************************************************************************)
(* Claims about the dense matrix                                           *)
(***************************************************************************)

\* the cells of the matrix mx that are not missing are exactly the echoes
\* of x with a height index below x.nheights
ViewCurrent(mx, x) ==
  /\ \A p \in DOMAIN x.echoes :
       x.echoes[p][2] < x.nheights =>
         /\ <<x.echoes[p][2], x.echoes[p][1]>> \in DOMAIN mx
         /\ mx[<<x.echoes[p][2], x.echoes[p][1]>>] = x.echoes[p][3]
  /\ \A c \in DOMAIN mx :
       mx[c] # NaN =>
         \E p \in DOMAIN x.echoes : x.echoes[p] = <<c[2], c[1], mx[c]>>

\* C21: the dense matrix is always current: after any sequence of a += b and
\* a.get_ionogram() on a loaded Ionogram a, the matrix that get_ionogram()
\* returns holds exactly the current echoes of a below its height count; a
\* matrix computed before a change of the echoes is never returned after it.
C21_MatrixViewCurrent ==
  viewpc = "got" => ViewCurrent(vret, vion)

=============================================================================
